---------------------------- MODULE Spec2Model ----------------------------
(***************************************************************************)
(* Model of tank/util/metrics.py: the metrics queue singleton, the metrics *)
(* dispatcher and its worker threads.                                      *)
(*                                                                         *)
(* Threads are numbered: 1..NumProducers are caller threads that log       *)
(* metrics and drain the queue directly, the following MaxThreads numbers  *)
(* are the MetricsDispatchWorkerThread objects, in creation order.         *)
(***************************************************************************)
EXTENDS Integers, Sequences, FiniteSets, TLC

\* ------------------------------------------------------------- bounds
NumProducers == 2       \* caller threads
MaxLogs == 3            \* log_event_metric calls of the sequential caller
MaxGets == 2            \* direct get_metrics calls in one run
MaxCount == 2           \* largest count given to a direct get_metrics call
MaxConcLogs == 2        \* log_event_metric calls when threads run concurrently
MaxWorkers == 2         \* largest num_workers of the dispatcher
MaxThreads == 2         \* worker threads created in one run
MaxBacklog == 12        \* metrics logged before and while the one worker runs
MaxLateLogs == 2        \* of these, the last ones, logged while the worker runs
MaxFirstLogs == 1       \* and the first ones, logged while the worker runs

Producers == 1..NumProducers
WorkerIds == (NumProducers + 1)..(NumProducers + MaxThreads)

\* ------------------------------------------------------------- values
\* Python's None for an optional integer argument is the empty tuple, an
\* integer n is <<n>>.
None == <<>>

Counts == {None} \cup {<<n>> : n \in (-1)..MaxCount}

\* bool(count) of Python, for None and for integers
Truthy(count) == count # None /\ count[1] # 0

\* The (event_group, event_name, event_properties) triples callers build
\* metrics from. The second differs from the first in its properties only.
EventArgs ==
    { <<"App", "Launch", <<>>>>,
      <<"App", "Launch", [tool |-> "maya"]>>,
      <<"Tk", "Launch", <<>>>>,
      <<"Tk", "Exit", <<>>>> }

\* the triples used when several caller threads run
ConcArgs == { <<"App", "Launch", <<>>>>, <<"Tk", "Launch", <<>>>> }

\* the triple used when the workers run
WorkArgs == { <<"App", "Launch", <<>>>> }

\* EventMetric.__init__: the data dictionary of a new metric. oid is the
\* identity of the Python object, which no two metrics share.
EventMetric(oid, event_group, event_name, event_properties) ==
    [ oid |-> oid,
      event_group |-> event_group,
      event_name |-> event_name,
      event_property |-> event_properties @@ [event_type |-> "event"] ]

\* ToolkitMetric.data
data(m) ==
    [ event_group |-> m.event_group,
      event_name |-> m.event_name,
      event_property |-> m.event_property ]

\* EventMetric.__repr__
repr(m) == m.event_group \o ":" \o m.event_name

\* MetricsDispatchWorkerThread.DISPATCH_BATCH_SIZE
DISPATCH_BATCH_SIZE == 10

\* The values of engine.shotgun.server_caps.version: None (or no server_caps
\* at all) is the empty tuple, which Python finds false as well.
Versions == { <<>>, <<7, 3, 9>>, <<7, 4>>, <<7, 4, 0>> }

\* Python's tuple comparison a < b: the first differing element decides,
\* a proper prefix is smaller
RECURSIVE TupleLess(_, _)
TupleLess(a, b) ==
    IF b = <<>> THEN FALSE
    ELSE IF a = <<>> THEN TRUE
    ELSE IF a[1] # b[1] THEN a[1] < b[1]
    ELSE TupleLess(Tail(a), Tail(b))

\* A slip in line 259: only the major version is compared.
MutMetricsOkMajor(v) == v # <<>> /\ v[1] >= 7

\* run, lines 256-260: metrics_ok
MetricsOk(v) == v # <<>> /\ ~TupleLess(v, <<7, 4, 0>>)

\* How one call of _dispatch ends: the request answered, urlopen raising
\* HTTPError, urlopen raising another error (URLError, a socket error), or
\* an error raised before the request (get_session_token, json.dumps).
Outcomes == {"ok", "HTTPError", "URLError", "payload"}

\* ------------------------------------------------------------- state
VARIABLES
    instance,        \* MetricsQueueSingleton.__instance: 0 is None, else an index of queue
    logged_metrics,  \* MetricsQueueSingleton.__logged_metrics (class attribute)
    queue,           \* queue[i]: the _queue deque of the i-th instance created
    lock,            \* lock[i]: the thread holding the _lock of instance i, 0 when free
    thread,          \* thread[t]: the position and the locals of thread t
    dispatcher,      \* the MetricsDispatcher: _num_workers, _workers, _dispatching
    version,         \* engine.shotgun.server_caps.version
    calls,           \* history: the log calls made, in call order
    appended,        \* history: the metrics appended to a queue, in append order
    drained,         \* history: the metrics returned by get_metrics, in return order
    drained_by,      \* history: for each metric of drained, the thread it was returned to
    obtained,        \* history: the instances MetricsQueueSingleton() has returned
    ctl              \* history: how the last call of start or stop went

qvars == <<instance, logged_metrics, queue, lock>>
hvars == <<calls, appended, drained, drained_by, obtained>>
dvars == <<dispatcher, version, ctl>>
vars == <<instance, logged_metrics, queue, lock, thread, dispatcher, version,
          calls, appended, drained, drained_by, obtained, ctl>>

NoMetric == EventMetric(0, "", "", <<>>)

\* A thread outside any call. The worker fields: _halt_event, whether the
\* worker has started a dispatch cycle, and in a cycle the outcome of
\* _dispatch, the requests it gave to urlopen and the arguments of the
\* calls of the log_metrics core hook it made.
IdleThread ==
    [ pc |-> "idle", op |-> "none", self |-> 0, metric |-> NoMetric,
      log_once |-> FALSE, count |-> None, num_pending |-> 0,
      metrics |-> <<>>, ret |-> "none", gets |-> 0,
      _halt_event |-> FALSE, cycled |-> FALSE, outcome |-> "none",
      request |-> <<>>, hook |-> <<>> ]

\* The state after MetricsDispatcher(engine, num_workers), lines 155-158,
\* with an engine whose server reports server_version; no queue exists yet.
InitWith(num_workers, server_version) ==
    /\ instance = 0
    /\ logged_metrics = {}
    /\ queue = <<>>
    /\ lock = <<>>
    /\ thread = [t \in Producers \cup WorkerIds |->
                    IF t \in Producers THEN IdleThread
                    ELSE [IdleThread EXCEPT !.pc = "unborn"]]
    /\ dispatcher = [_num_workers |-> num_workers, _workers |-> <<>>,
                     _dispatching |-> FALSE]
    /\ version = server_version
    /\ calls = <<>>
    /\ appended = <<>>
    /\ drained = <<>>
    /\ drained_by = <<>>
    /\ obtained = {}
    /\ ctl = "none"

\* "This class manages 1 or more worker threads", line 139
Init == \E n \in 1..MaxWorkers, v \in Versions : InitWith(n, v)

\* a dispatcher with the default num_workers that is never started
InitCallers == InitWith(1, <<7, 4, 0>>)

\* the metrics of k calls log_event_metric(EventMetric("App", "Launch"))
Backlog(k) == [i \in 1..k |-> EventMetric(i, "App", "Launch", <<>>)]

\* The state after one caller thread has made k such calls, one after the
\* other, lines 404-419, and MetricsDispatcher(engine, num_workers) was
\* built: the queue exists and holds the k metrics.
InitBacklog(k, num_workers, server_version) ==
    IF k = 0 THEN InitWith(num_workers, server_version)
    ELSE
    /\ instance = 1
    /\ logged_metrics = {repr(Backlog(k)[1])}
    /\ queue = <<Backlog(k)>>
    /\ lock = <<0>>
    /\ thread = [t \in Producers \cup WorkerIds |->
                    IF t = 1 THEN [IdleThread EXCEPT !.ret = "logged"]
                    ELSE IF t \in Producers THEN IdleThread
                    ELSE [IdleThread EXCEPT !.pc = "unborn"]]
    /\ dispatcher = [_num_workers |-> num_workers, _workers |-> <<>>,
                     _dispatching |-> FALSE]
    /\ version = server_version
    /\ calls = [i \in 1..k |->
                    [metric |-> Backlog(k)[i], log_once |-> FALSE, thread |-> 1]]
    /\ appended = Backlog(k)
    /\ drained = <<>>
    /\ drained_by = <<>>
    /\ obtained = {1}
    /\ ctl = "none"

Goto(t, label) == [thread EXCEPT ![t].pc = label]

\* the return of a call to a caller thread: its locals are gone
Return(t, ret) ==
    [thread EXCEPT ![t] = [IdleThread EXCEPT !.ret = ret, !.gets = thread[t].gets]]

\* ------------------------------------------------- MetricsQueueSingleton
\* __new__, line 56: the test of the class attribute
NewCheck(t) ==
    /\ thread[t].pc = "new_check"
    /\ thread' = Goto(t, IF instance = 0 THEN "new_create" ELSE "new_return")
    /\ UNCHANGED <<qvars, hvars, dvars>>

\* __new__, lines 59-67: a new object with its lock and deque, remembered
NewCreate(t) ==
    /\ thread[t].pc = "new_create"
    /\ queue' = Append(queue, <<>>)
    /\ lock' = Append(lock, 0)
    /\ instance' = Len(queue) + 1
    /\ thread' = Goto(t, "new_return")
    /\ UNCHANGED <<logged_metrics, hvars, dvars>>

\* __new__, line 69: return cls.__instance; the caller goes on to its method
NewReturn(t) ==
    /\ thread[t].pc = "new_return"
    /\ thread' = [thread EXCEPT
            ![t].self = instance,
            ![t].pc = IF thread[t].op = "log" THEN "log_check" ELSE "get_acquire"]
    /\ obtained' = obtained \cup {instance}
    /\ UNCHANGED <<qvars, calls, appended, drained, drained_by, dvars>>

\* log, lines 86-90: the identifier and the log_once test, before the lock
LogCheck(t) ==
    /\ thread[t].pc = "log_check"
    /\ thread' =
         IF thread[t].log_once /\ repr(thread[t].metric) \in logged_metrics
         THEN Return(t, "skipped")
         ELSE Goto(t, "log_acquire")
    /\ UNCHANGED <<qvars, hvars, dvars>>

\* Lock.acquire, lines 92 and 117: blocks while another thread holds the lock
Acquire(t, label) ==
    /\ lock[thread[t].self] = 0
    /\ lock' = [lock EXCEPT ![thread[t].self] = t]
    /\ thread' = Goto(t, label)

\* log, line 92
LogAcquire(t) ==
    /\ thread[t].pc = "log_acquire"
    /\ Acquire(t, "log_append")
    /\ UNCHANGED <<instance, logged_metrics, queue, hvars, dvars>>

\* A slip in line 97: only a log_once metric is remembered.
MutRememberOnce(logged, m, log_once) ==
    IF log_once THEN logged \cup {repr(m)} ELSE logged

\* log, line 97: the identifiers remembered after an append
Remember(logged, m, log_once) == logged \cup {repr(m)}

\* log, lines 94-97: the append and the identifier
LogAppend(t) ==
    /\ thread[t].pc = "log_append"
    /\ queue' = [queue EXCEPT ![thread[t].self] = Append(@, thread[t].metric)]
    /\ logged_metrics' = Remember(logged_metrics, thread[t].metric, thread[t].log_once)
    /\ appended' = Append(appended, thread[t].metric)
    /\ thread' = Goto(t, "log_release")
    /\ UNCHANGED <<instance, lock, calls, drained, drained_by, obtained, dvars>>

\* log, line 101
LogRelease(t) ==
    /\ thread[t].pc = "log_release"
    /\ lock' = [lock EXCEPT ![thread[t].self] = 0]
    /\ thread' = Return(t, "logged")
    /\ UNCHANGED <<instance, logged_metrics, queue, hvars, dvars>>

\* get_metrics, line 117
GetAcquire(t) ==
    /\ thread[t].pc = "get_acquire"
    /\ Acquire(t, "get_pending")
    /\ UNCHANGED <<instance, logged_metrics, queue, hvars, dvars>>

\* get_metrics, lines 115-122
GetPending(t) ==
    /\ thread[t].pc = "get_pending"
    /\ thread' = [thread EXCEPT
            ![t].num_pending = Len(queue[thread[t].self]),
            ![t].metrics = <<>>,
            ![t].pc = IF Len(queue[thread[t].self]) # 0 THEN "get_pop" ELSE "get_release"]
    /\ UNCHANGED <<qvars, hvars, dvars>>

\* A slip in lines 125-126: the count is never looked at.
MutHowManyAll(count, num_pending) == num_pending

\* get_metrics, lines 125-126: how many metrics to retrieve
HowMany(count, num_pending) ==
    IF ~Truthy(count) \/ count[1] > num_pending THEN num_pending ELSE count[1]

\* A slip in line 129: q[i] for popleft(), the metrics stay in the deque.
MutPoppedPeek(q, n) ==
    IF n <= 0 THEN [metrics |-> <<>>, queue |-> q]
    ELSE IF n > Len(q) THEN [metrics |-> <<>>, queue |-> <<>>]
    ELSE [metrics |-> SubSeq(q, 1, n), queue |-> q]

\* A slip in line 129: pop() for popleft().
MutPoppedRight(q, n) ==
    IF n <= 0 THEN [metrics |-> <<>>, queue |-> q]
    ELSE IF n > Len(q) THEN [metrics |-> <<>>, queue |-> <<>>]
    ELSE [metrics |-> [i \in 1..n |-> q[Len(q) + 1 - i]],
          queue |-> SubSeq(q, 1, Len(q) - n)]

\* get_metrics, line 129: [popleft() for i in range(0, count)]. range() of a
\* negative count is empty. A popleft() from an empty deque raises, the
\* except clause swallows it and metrics stays [] while the metrics popped
\* so far are gone.
Popped(q, n) ==
    IF n <= 0 THEN [metrics |-> <<>>, queue |-> q]
    ELSE IF n > Len(q) THEN [metrics |-> <<>>, queue |-> <<>>]
    ELSE [metrics |-> SubSeq(q, 1, n), queue |-> SubSeq(q, n + 1, Len(q))]

\* A slip in get_metrics: the identifiers of the metrics returned are
\* forgotten.
MutGetPopForgets(t) ==
    /\ thread[t].pc = "get_pop"
    /\ LET r == Popped(queue[thread[t].self],
                       HowMany(thread[t].count, thread[t].num_pending))
       IN /\ queue' = [queue EXCEPT ![thread[t].self] = r.queue]
          /\ thread' = [thread EXCEPT ![t].metrics = r.metrics, ![t].pc = "get_release"]
          /\ drained' = drained \o r.metrics
          /\ drained_by' = drained_by \o [i \in DOMAIN r.metrics |-> t]
          /\ logged_metrics' =
                logged_metrics \ {repr(r.metrics[i]) : i \in DOMAIN r.metrics}
    /\ UNCHANGED <<instance, lock, calls, appended, obtained, dvars>>

\* get_metrics, lines 125-129
GetPop(t) ==
    /\ thread[t].pc = "get_pop"
    /\ LET r == Popped(queue[thread[t].self],
                       HowMany(thread[t].count, thread[t].num_pending))
       IN /\ queue' = [queue EXCEPT ![thread[t].self] = r.queue]
          /\ thread' = [thread EXCEPT ![t].metrics = r.metrics, ![t].pc = "get_release"]
          /\ drained' = drained \o r.metrics
          /\ drained_by' = drained_by \o [i \in DOMAIN r.metrics |-> t]
    /\ UNCHANGED <<instance, logged_metrics, lock, calls, appended, obtained, dvars>>

\* get_metrics, lines 133-135, and for a worker run, line 272
GetRelease(t) ==
    /\ thread[t].pc = "get_release"
    /\ lock' = [lock EXCEPT ![thread[t].self] = 0]
    /\ thread' =
         IF t \in Producers THEN Return(t, "got")
         ELSE Goto(t, IF thread[t].metrics # <<>> THEN "dispatch" ELSE "wait")
    /\ UNCHANGED <<instance, logged_metrics, queue, hvars, dvars>>

\* ------------------------------------------------------------ callers
\* log_event_metric(EventMetric(...), log_once), line 419
LogEventMetric(t, args, log_once) ==
    /\ thread[t].pc = "idle"
    /\ LET m == EventMetric(Len(calls) + 1, args[1], args[2], args[3])
       IN /\ thread' = [thread EXCEPT ![t].pc = "new_check", ![t].op = "log",
                            ![t].metric = m, ![t].log_once = log_once,
                            ![t].ret = "none"]
          /\ calls' = Append(calls, [metric |-> m, log_once |-> log_once, thread |-> t])
    /\ UNCHANGED <<qvars, appended, drained, drained_by, obtained, dvars>>

\* the direct get_metrics calls made so far
RECURSIVE GetsUpTo(_)
GetsUpTo(t) == IF t = 0 THEN 0 ELSE thread[t].gets + GetsUpTo(t - 1)

TotalGets == GetsUpTo(NumProducers)

\* MetricsQueueSingleton().get_metrics(count), called by a caller thread
GetMetrics(t, count) ==
    /\ thread[t].pc = "idle"
    /\ TotalGets < MaxGets
    /\ thread' = [thread EXCEPT ![t].pc = "new_check", ![t].op = "get",
                       ![t].count = count, ![t].ret = "none",
                       ![t].gets = @ + 1]
    /\ UNCHANGED <<qvars, hvars, dvars>>

QueueStep(t) ==
    \/ NewCheck(t)
    \/ NewCreate(t)
    \/ NewReturn(t)
    \/ LogCheck(t)
    \/ LogAcquire(t)
    \/ LogAppend(t)
    \/ LogRelease(t)
    \/ GetAcquire(t)
    \/ GetPending(t)
    \/ GetPop(t)
    \/ GetRelease(t)

\* ------------------------------------------ MetricsDispatchWorkerThread
\* run, lines 255-263: the probe of the server version
WorkerProbe(w) ==
    /\ thread[w].pc = "run"
    /\ thread' = Goto(w, IF MetricsOk(version) THEN "loop" ELSE "unsupported")
    /\ UNCHANGED <<qvars, hvars, dvars>>

\* A slip in line 266: the loop is while True.
MutWorkerLoopDeaf(w) ==
    /\ thread[w].pc = "loop"
    /\ thread' = [thread EXCEPT ![w].pc = "new_check", ![w].op = "get",
                       ![w].count = <<DISPATCH_BATCH_SIZE>>, ![w].cycled = TRUE]
    /\ UNCHANGED <<qvars, hvars, dvars>>

\* run, lines 266-271: the loop test, and the call of get_metrics
WorkerLoop(w) ==
    /\ thread[w].pc = "loop"
    /\ thread' =
         IF thread[w]._halt_event THEN Goto(w, "halted")
         ELSE [thread EXCEPT ![w].pc = "new_check", ![w].op = "get",
                    ![w].count = <<DISPATCH_BATCH_SIZE>>, ![w].cycled = TRUE]
    /\ UNCHANGED <<qvars, hvars, dvars>>

\* _dispatch, line 308: [m.data for m in metrics]
DataOf(metrics) == [i \in 1..Len(metrics) |-> data(metrics[i])]

\* _dispatch, lines 304-309: the payload of the request
Payload(metrics) ==
    [ auth_args |-> [session_token |-> "token"], metrics |-> DataOf(metrics) ]

\* _dispatch, lines 313-324: whether the hook runs after urlopen
HookRuns(outcome) == outcome \in {"ok", "HTTPError"}

\* A slip in lines 274-275: run catches urllib2.HTTPError only, any other
\* error ends the thread.
MutDispatchDies(w, outcome) ==
    /\ thread[w].pc = "dispatch"
    /\ LET batch == thread[w].metrics
           sends == outcome # "payload"
           hooks == sends /\ HookRuns(outcome)
       IN thread' = [thread EXCEPT
                ![w].pc = IF outcome \in {"ok", "HTTPError"} THEN "wait" ELSE "halted",
                ![w].outcome = outcome,
                ![w].request = IF sends THEN <<Payload(batch)>> ELSE <<>>,
                ![w].hook = IF hooks THEN <<DataOf(batch)>> ELSE <<>>]
    /\ UNCHANGED <<qvars, hvars, dvars>>

\* run, line 273 and _dispatch, lines 284-324, with the except clause of run
WorkerDispatch(w, outcome) ==
    /\ thread[w].pc = "dispatch"
    /\ LET batch == thread[w].metrics
           sends == outcome # "payload"
           hooks == sends /\ HookRuns(outcome)
       IN thread' = [thread EXCEPT
                ![w].pc = "wait",
                ![w].outcome = outcome,
                ![w].request = IF sends THEN <<Payload(batch)>> ELSE <<>>,
                ![w].hook = IF hooks THEN <<DataOf(batch)>> ELSE <<>>]
    /\ UNCHANGED <<qvars, hvars, dvars>>

\* run, line 278: _halt_event.wait(DISPATCH_INTERVAL) returns, on the
\* event or on the timeout; the locals of the cycle are dead
WorkerWait(w) ==
    /\ thread[w].pc = "wait"
    /\ thread' = [thread EXCEPT
            ![w].pc = "loop", ![w].metrics = <<>>, ![w].num_pending = 0,
            ![w].outcome = "none", ![w].request = <<>>, ![w].hook = <<>>]
    /\ UNCHANGED <<qvars, hvars, dvars>>

WorkerStep(w) ==
    \/ WorkerProbe(w)
    \/ WorkerLoop(w)
    \/ QueueStep(w)
    \/ WorkerWait(w)

\* ---------------------------------------------------- MetricsDispatcher
\* the worker threads created so far
Created == Cardinality({w \in WorkerIds : thread[w].pc # "unborn"})

\* A slip in line 182: start takes the threads it created first again.
MutNewWorkersReuse(n) == [i \in 1..n |-> NumProducers + i]

\* start, lines 181-185: the workers created and started
NewWorkers(n) == [i \in 1..n |-> NumProducers + Created + i]

\* A slip in lines 167-170: the _dispatching test is missing.
MutStartsAgain(dispatching, user) == user

\* A slip in lines 176-178: the authenticated user test is missing.
MutStartsAnyone(dispatching, user) == ~dispatching

\* start, lines 167-178: whether start goes on to create the workers
Starts(dispatching, user) == ~dispatching /\ user

\* start, lines 160-187; user is what get_authenticated_user() returns
Start(user) ==
    /\ LET new == NewWorkers(dispatcher._num_workers)
           go == Starts(dispatcher._dispatching, user)
       IN /\ go => Created + dispatcher._num_workers <= MaxThreads
          /\ dispatcher' =
                IF go
                THEN [dispatcher EXCEPT !._workers = @ \o new, !._dispatching = TRUE]
                ELSE dispatcher
          /\ thread' =
                IF go
                THEN [t \in DOMAIN thread |->
                        IF \E i \in DOMAIN new : new[i] = t
                        THEN [thread[t] EXCEPT !.pc = "run"]
                        ELSE thread[t]]
                ELSE thread
          /\ ctl' = IF dispatcher._dispatching THEN "already"
                     ELSE IF ~user THEN "refused"
                     ELSE "started"
    /\ UNCHANGED <<qvars, hvars, version>>

\* A slip in stop: it also throws away the metrics that are pending.
MutStopClears ==
    /\ thread' = [t \in DOMAIN thread |->
                    IF \E i \in DOMAIN dispatcher._workers : dispatcher._workers[i] = t
                    THEN [thread[t] EXCEPT !._halt_event = TRUE]
                    ELSE thread[t]]
    /\ dispatcher' = [dispatcher EXCEPT !._dispatching = FALSE, !._workers = <<>>]
    /\ ctl' = "stopped"
    /\ queue' = [i \in DOMAIN queue |-> <<>>]
    /\ UNCHANGED <<instance, logged_metrics, lock, hvars, version>>

\* stop, lines 189-195, with halt, line 282
Stop ==
    /\ thread' = [t \in DOMAIN thread |->
                    IF \E i \in DOMAIN dispatcher._workers : dispatcher._workers[i] = t
                    THEN [thread[t] EXCEPT !._halt_event = TRUE]
                    ELSE thread[t]]
    /\ dispatcher' = [dispatcher EXCEPT !._dispatching = FALSE, !._workers = <<>>]
    /\ ctl' = "stopped"
    /\ UNCHANGED <<qvars, hvars, version>>

\* ------------------------------------------------------ specifications
\* One caller thread that logs and drains: the queue as a sequential object.
NextSeq ==
    \/ QueueStep(1)
    \/ \E args \in EventArgs, log_once \in BOOLEAN :
          Len(calls) < MaxLogs /\ LogEventMetric(1, args, log_once)
    \/ \E count \in Counts : GetMetrics(1, count)

SpecSeq == InitCallers /\ [][NextSeq]_vars

\* Several caller threads that log concurrently, and drain everything.
NextRace ==
    \/ \E t \in Producers : QueueStep(t)
    \/ \E t \in Producers, args \in ConcArgs, log_once \in BOOLEAN :
          Len(calls) < MaxConcLogs /\ LogEventMetric(t, args, log_once)
    \/ \E t \in Producers : GetMetrics(t, None)

SpecRace == InitCallers /\ [][NextRace]_vars

\* The dispatcher driven by one control thread, its workers, and one caller
\* thread that logs.
Next ==
    \/ \E args \in WorkArgs, log_once \in BOOLEAN :
          Len(calls) < MaxConcLogs /\ LogEventMetric(1, args, log_once)
    \/ QueueStep(1)
    \/ \E w \in WorkerIds : WorkerStep(w)
    \/ \E w \in WorkerIds, outcome \in Outcomes : WorkerDispatch(w, outcome)
    \/ \E user \in BOOLEAN : Start(user)
    \/ Stop

Spec == Init /\ [][Next]_vars

\* A dispatcher with one worker, and a caller thread that has logged up to
\* MaxBacklog metrics, more than one batch holds, before the dispatcher was
\* built. While the worker runs the caller logs the first MaxFirstLogs and
\* the last MaxLateLogs of the MaxBacklog metrics.
LateLog ==
    \/ Len(calls) < MaxFirstLogs
    \/ MaxBacklog - MaxLateLogs <= Len(calls) /\ Len(calls) < MaxBacklog

NextBatch ==
    \/ \E args \in WorkArgs : LateLog /\ LogEventMetric(1, args, FALSE)
    \/ QueueStep(1)
    \/ \E w \in WorkerIds : WorkerStep(w)
    \/ \E w \in WorkerIds, outcome \in Outcomes : WorkerDispatch(w, outcome)
    \/ \E user \in BOOLEAN : Start(user)
    \/ Stop

SpecBatch ==
    /\ \E k \in 0..MaxBacklog : InitBacklog(k, 1, <<7, 4, 0>>)
    /\ [][NextBatch]_vars

\* halt, lines 280-282, called on a worker thread that was created
Halt(w) ==
    /\ thread[w].pc # "unborn"
    /\ thread' = [thread EXCEPT ![w]._halt_event = TRUE]
    /\ UNCHANGED <<qvars, hvars, dvars>>

\* every step a worker thread takes by itself, the return of _dispatch
\* included
WorkerRuns(w) == WorkerStep(w) \/ \E outcome \in Outcomes : WorkerDispatch(w, outcome)

\* The same with no backlog or with one of more than a batch, for any server
\* version, and with direct calls of halt. A thread
\* that can take a step takes one in the end: the worker threads, and the
\* caller inside a call of log_event_metric. A thread that waits for a lock
\* gets it in the end if the lock is free again and again: no thread holds
\* it between its calls and a worker sleeps DISPATCH_INTERVAL seconds
\* between two of its calls. Nothing makes the control thread call start or
\* stop, or the caller log.
NextFair ==
    \/ NextBatch
    \/ \E w \in WorkerIds : Halt(w)

SpecFair ==
    /\ \E k \in {0, MaxBacklog - 1}, v \in Versions : InitBacklog(k, 1, v)
    /\ [][NextFair]_vars
    /\ \A w \in WorkerIds : WF_vars(WorkerRuns(w)) /\ SF_vars(GetAcquire(w))
    /\ WF_vars(QueueStep(1)) /\ SF_vars(LogAcquire(1))

\* Several caller threads that log while several workers of one dispatcher,
\* once started, drain; the server answers every request.
NextConc ==
    \/ \E t \in Producers, args \in WorkArgs :
          Len(calls) < MaxConcLogs /\ LogEventMetric(t, args, FALSE)
    \/ \E t \in Producers : QueueStep(t)
    \/ \E w \in WorkerIds : WorkerStep(w)
    \/ \E w \in WorkerIds : WorkerDispatch(w, "ok")
    \/ Start(TRUE)

SpecConc == InitWith(MaxThreads, <<7, 4, 0>>) /\ [][NextConc]_vars

\* -------------------------------------------------------------- claims
\* the log_once argument of the call that logged metric m
LoggedOnce(m) == calls[m.oid].log_once

\* the pending metrics of the queue MetricsQueueSingleton() returns now
Pending == IF instance = 0 THEN <<>> ELSE queue[instance]

\* C1: of the metrics logged with log_once=True that share an identifier, at
\* most one is ever appended to a queue, however the calling threads
\* interleave.
C1_LogOnceAppendsOnce ==
    \A i, j \in DOMAIN appended :
        (i < j /\ repr(appended[i]) = repr(appended[j]))
            => ~(LoggedOnce(appended[i]) /\ LoggedOnce(appended[j]))

\* the result of the get_metrics call of thread t is computed, its lock
\* still held
Got(t) == thread[t].pc = "get_release"

\* C2, as stated: get_metrics(N) with N >= 0 returns at most N metrics and
\* at most the pending ones; get_metrics() returns all the pending metrics
\* and leaves the queue empty; on an empty queue the result is empty.
C2_AtMostCount ==
    \A t \in Producers : Got(t) =>
        LET th == thread[t] IN
        /\ (th.count # None /\ th.count[1] >= 0) =>
              /\ Len(th.metrics) <= th.count[1]
              /\ Len(th.metrics) <= th.num_pending
        /\ th.count = None =>
              /\ Len(th.metrics) = th.num_pending
              /\ queue[th.self] = <<>>
        /\ th.num_pending = 0 => th.metrics = <<>>

\* C2, amended: get_metrics(N) with N >= 1 returns at most N metrics and at
\* most the pending ones; get_metrics() and get_metrics(0) return all the
\* pending metrics and leave the queue empty; on an empty queue the result
\* is empty.
C2_AtMostCountFromOne ==
    \A t \in Producers : Got(t) =>
        LET th == thread[t] IN
        /\ (th.count # None /\ th.count[1] >= 1) =>
              /\ Len(th.metrics) <= th.count[1]
              /\ Len(th.metrics) <= th.num_pending
        /\ (th.count = None \/ th.count = <<0>>) =>
              /\ Len(th.metrics) = th.num_pending
              /\ queue[th.self] = <<>>
        /\ th.num_pending = 0 => th.metrics = <<>>

\* get_metrics(1) has returned one of two pending metrics
C2_Witness ==
    /\ Got(1)
    /\ thread[1].count = <<1>>
    /\ thread[1].num_pending = 2
    /\ Len(thread[1].metrics) = 1
    /\ Len(queue[thread[1].self]) = 1

\* a worker thread that is alive: started, and run has not returned
Running(w) == thread[w].pc \notin {"unborn", "halted", "unsupported"}

\* C3: a worker that waits after a send that failed, with an HTTP error
\* status or with any other transport error, has called the hook exactly
\* once in this cycle, with the data of the batch it drained.
C3_HookAfterFailedSend ==
    \A w \in WorkerIds :
        (thread[w].pc = "wait" /\ thread[w].outcome \in {"HTTPError", "URLError"})
            => thread[w].hook = <<DataOf(thread[w].metrics)>>

\* C4: _dispatching is true exactly when the worker list is not empty and
\* the workers in it are running.
C4_DispatchingIffRunning ==
    dispatcher._dispatching <=>
        /\ dispatcher._workers # <<>>
        /\ \A i \in DOMAIN dispatcher._workers : Running(dispatcher._workers[i])

\* C5: every call of MetricsQueueSingleton() returns the same instance, and
\* no metric sits in the queue of an instance that is not the one the class
\* remembers, where no later get_metrics call finds it.
C5_OneInstance ==
    /\ Cardinality(obtained) <= 1
    /\ \A i \in DOMAIN queue : i # instance => queue[i] = <<>>

\* no two of the calls cs log metrics of the same identifier
DistinctIdentities(cs) ==
    \A i, j \in DOMAIN cs : i # j => repr(cs[i].metric) # repr(cs[j].metric)

\* C6: when one thread has logged metrics of distinct identifiers and has
\* drained with counts of any size, the metrics drained so far followed by
\* the pending ones are the metrics logged, in the order of the calls.
C6_Fifo ==
    (thread[1].pc = "idle" /\ DistinctIdentities(calls))
        => drained \o Pending = [i \in DOMAIN calls |-> calls[i].metric]

\* three metrics logged, two of them drained one at a time
C6_Witness ==
    /\ thread[1].pc = "idle"
    /\ DistinctIdentities(calls)
    /\ Len(calls) = 3
    /\ Len(drained) = 2
    /\ Len(Pending) = 1
    /\ thread[1].gets = 2

\* the metrics the first k calls append when every call runs alone: a call
\* appends its metric unless it asks for log_once and an earlier call, of
\* either kind, logged the same identifier
RECURSIVE ExpectedAppends(_)
ExpectedAppends(k) ==
    IF k = 0 THEN <<>>
    ELSE IF /\ calls[k].log_once
            /\ \E j \in 1..(k - 1) : repr(calls[j].metric) = repr(calls[k].metric)
         THEN ExpectedAppends(k - 1)
         ELSE Append(ExpectedAppends(k - 1), calls[k].metric)

\* C7: between the calls of one thread, the seen set holds the identifier of
\* every metric logged, log_once or not, and the metrics appended are those
\* of the calls made, in order, less the log_once calls whose identifier an
\* earlier call had logged: such a call appends nothing and a call without
\* log_once always appends its metric.
C7_SeenWhateverLogOnce ==
    thread[1].pc = "idle" =>
        /\ logged_metrics = {repr(calls[k].metric) : k \in DOMAIN calls}
        /\ appended = ExpectedAppends(Len(calls))

\* log(e) and then log(e', log_once=True), e' of the identifier of e but
\* with other properties: the second call has returned and appended nothing
C7_Witness ==
    /\ thread[1].pc = "idle"
    /\ thread[1].ret = "skipped"
    /\ Len(calls) = 2
    /\ ~calls[1].log_once
    /\ calls[2].log_once
    /\ repr(calls[1].metric) = repr(calls[2].metric)
    /\ data(calls[1].metric) # data(calls[2].metric)
    /\ appended = <<calls[1].metric>>
    /\ Pending = <<calls[1].metric>>

\* C8: a call of start on a dispatcher that is dispatching creates and starts
\* no worker and leaves the worker list and the flag as they are, and a
\* dispatching dispatcher has exactly _num_workers workers in its list.
C8_StartIdempotent ==
    /\ [][\A user \in BOOLEAN :
            (dispatcher._dispatching /\ Start(user))
                => (dispatcher' = dispatcher /\ thread' = thread)]_vars
    /\ [](dispatcher._dispatching
            => Len(dispatcher._workers) = dispatcher._num_workers)

\* start was called on a dispatcher that was dispatching with two workers
C8_Witness ==
    /\ ctl = "already"
    /\ dispatcher._dispatching
    /\ dispatcher._num_workers = 2
    /\ Len(dispatcher._workers) = 2
    /\ Created = 2

\* C9: a call of start without an authenticated user on a dispatcher that is
\* not dispatching creates and starts no worker, and leaves the list empty
\* and the flag false; a call with an authenticated user right after it
\* starts _num_workers workers and sets the flag.
C9_StartWithoutUser ==
    /\ [][(~dispatcher._dispatching /\ Start(FALSE))
            => /\ dispatcher' = dispatcher
               /\ thread' = thread
               /\ dispatcher'._workers = <<>>
               /\ ~dispatcher'._dispatching]_vars
    /\ [][(ctl = "refused" /\ Start(TRUE))
            => /\ dispatcher'._dispatching
               /\ Len(dispatcher'._workers) = dispatcher._num_workers
               /\ \A i \in DOMAIN dispatcher'._workers :
                     /\ thread[dispatcher'._workers[i]].pc = "unborn"
                     /\ thread'[dispatcher'._workers[i]].pc = "run"]_vars
    /\ [](ctl = "refused" => (~dispatcher._dispatching /\ dispatcher._workers = <<>>))

\* start was refused for want of a user, no worker was ever created
C9_Witness ==
    /\ ctl = "refused"
    /\ ~dispatcher._dispatching
    /\ dispatcher._workers = <<>>
    /\ dispatcher._num_workers = 2
    /\ Created = 0

\* the server reports no version, or one below (7, 4, 0)
BelowMinimum == version = <<>> \/ TupleLess(version, <<7, 4, 0>>)

\* C10: with a server version that is missing or below (7, 4, 0), a worker
\* that has run its probe is in the state unsupported, has started no cycle,
\* drained nothing and sent nothing; it stays there whatever happens; and
\* every metric logged stays pending.
C10_UnsupportedExit ==
    /\ [](BelowMinimum =>
            /\ \A w \in WorkerIds :
                  thread[w].pc \in {"unborn", "run", "unsupported"}
            /\ \A w \in WorkerIds :
                  thread[w].pc = "unsupported" =>
                      /\ ~thread[w].cycled
                      /\ thread[w].request = <<>>
                      /\ thread[w].hook = <<>>
            /\ drained = <<>>
            /\ Pending = appended)
    /\ [][\A w \in WorkerIds :
            thread[w].pc = "unsupported"
                => thread'[w] = [thread[w] EXCEPT !._halt_event = thread'[w]._halt_event]]_vars

\* a worker has left for a server of version 7.3.9, two metrics are pending
C10_Witness ==
    /\ version = <<7, 3, 9>>
    /\ \E w \in WorkerIds : thread[w].pc = "unsupported"
    /\ Len(Pending) = 2
    /\ thread[1].pc = "idle"

Min(a, b) == IF a <= b THEN a ELSE b

\* C11: a dispatch cycle of a worker on a queue of k pending metrics takes
\* the first min(k, DISPATCH_BATCH_SIZE) of them and leaves the others in the
\* queue in their order; a cycle whose _dispatch reaches urlopen has given
\* it one request, which holds the data of the metrics taken, in their
\* order.
C11_BatchFromHead ==
    /\ [][\A w \in WorkerIds :
            GetPop(w) =>
                LET q == queue[thread[w].self]
                    n == Min(Len(q), DISPATCH_BATCH_SIZE)
                IN /\ thread'[w].metrics = SubSeq(q, 1, n)
                   /\ queue'[thread[w].self] = SubSeq(q, n + 1, Len(q))]_vars
    /\ [](\A w \in WorkerIds :
            /\ Got(w) =>
                  /\ Len(thread[w].metrics)
                        = Min(thread[w].num_pending, DISPATCH_BATCH_SIZE)
                  /\ Len(queue[thread[w].self])
                        = thread[w].num_pending - Len(thread[w].metrics)
            /\ (thread[w].pc = "wait" /\ thread[w].outcome \notin {"none", "payload"}) =>
                  /\ Len(thread[w].request) = 1
                  /\ thread[w].request[1].metrics
                        = [i \in 1..Len(thread[w].metrics) |-> data(thread[w].metrics[i])])

\* a worker found twelve metrics pending, has sent the first ten in one
\* request and left the last two in the queue
C11_Witness ==
    \E w \in WorkerIds :
        /\ thread[w].pc = "wait"
        /\ thread[w].outcome = "ok"
        /\ thread[w].num_pending = DISPATCH_BATCH_SIZE + 2
        /\ Len(thread[w].request) = 1
        /\ Len(thread[w].request[1].metrics) = DISPATCH_BATCH_SIZE
        /\ Len(appended) = DISPATCH_BATCH_SIZE + 2
        /\ queue[thread[w].self]
              = SubSeq(appended, DISPATCH_BATCH_SIZE + 1, DISPATCH_BATCH_SIZE + 2)

\* the threads in the worker list of the dispatcher
Listed == {dispatcher._workers[i] : i \in DOMAIN dispatcher._workers}

\* C12: the workers in the list have their halt event unset, and a start
\* after a stop puts in the list only threads that did not exist before; a
\* halt event that is set is never cleared; no thread that has run is
\* started again; a worker whose run has returned on the halt event takes
\* no further step, so it drains and sends nothing.
C12_NoResurrection ==
    /\ [](\A w \in Listed : ~thread[w]._halt_event)
    /\ [][(ctl = "stopped" /\ Start(TRUE)) =>
            /\ Len(dispatcher'._workers) = dispatcher._num_workers
            /\ \A i \in DOMAIN dispatcher'._workers :
                  /\ thread[dispatcher'._workers[i]].pc = "unborn"
                  /\ thread'[dispatcher'._workers[i]].pc = "run"
                  /\ ~thread'[dispatcher'._workers[i]]._halt_event]_vars
    /\ [][\A w \in WorkerIds :
            /\ thread[w]._halt_event => thread'[w]._halt_event
            /\ thread'[w].pc = "run" => thread[w].pc \in {"unborn", "run"}
            /\ thread[w].pc = "halted" => thread'[w] = thread[w]]_vars

\* stop and then start: the first worker has halted, with metrics pending,
\* and the list holds the second worker alone, which drains
C12_Witness ==
    /\ ctl = "started"
    /\ thread[NumProducers + 1].pc = "halted"
    /\ thread[NumProducers + 1]._halt_event
    /\ dispatcher._workers = <<NumProducers + 2>>
    /\ ~thread[NumProducers + 2]._halt_event
    /\ thread[NumProducers + 2].pc = "get_release"
    /\ Len(thread[NumProducers + 2].metrics) > 0

\* worker w starts a dispatch cycle in this step
StartsCycle(w) == thread[w].pc = "loop" /\ thread'[w].pc = "new_check"

\* C13, as stated: a worker whose halt event is set starts no further cycle,
\* and in the end its run has returned from the loop, on the halt event.
C13_HaltedAfterHalt ==
    /\ [][\A w \in WorkerIds : thread[w]._halt_event => ~StartsCycle(w)]_vars
    /\ \A w \in WorkerIds : thread[w]._halt_event ~> (thread[w].pc = "halted")

\* C13, amended: a worker whose halt event is set starts no further cycle;
\* if it has passed the probe, in the end its run has returned from the
\* loop on the halt event; if not, in the end its run has returned, from the
\* loop or from the probe.
C13_ExitsAfterHalt ==
    /\ [][\A w \in WorkerIds : thread[w]._halt_event => ~StartsCycle(w)]_vars
    /\ \A w \in WorkerIds :
          (thread[w]._halt_event /\ thread[w].pc \notin {"run", "unsupported"})
              ~> (thread[w].pc = "halted")
    /\ \A w \in WorkerIds :
          thread[w]._halt_event ~> (thread[w].pc \in {"halted", "unsupported"})

\* a worker was halted in a cycle in which it had drained a batch, and its
\* run has returned
C13_Witness ==
    \E w \in WorkerIds :
        /\ thread[w].pc = "halted"
        /\ thread[w]._halt_event
        /\ thread[w].cycled
        /\ Len(drained) = DISPATCH_BATCH_SIZE
        /\ Len(Pending) = 2

\* C14: a call of start or of stop leaves the queue, its pending metrics and
\* their order, and the set of identifiers seen, as they were.
C14_QueueUntouched ==
    [][(Stop \/ \E user \in BOOLEAN : Start(user)) =>
          /\ instance' = instance
          /\ queue' = queue
          /\ Pending' = Pending
          /\ logged_metrics' = logged_metrics]_vars

\* start, stop and start again: of the twelve metrics logged, the two that
\* no worker took before the stop are pending under the second worker
C14_Witness ==
    /\ ctl = "started"
    /\ Created = 2
    /\ thread[NumProducers + 2].pc = "run"
    /\ Len(appended) = DISPATCH_BATCH_SIZE + 2
    /\ Len(drained) = DISPATCH_BATCH_SIZE
    /\ Pending = SubSeq(appended, DISPATCH_BATCH_SIZE + 1, DISPATCH_BATCH_SIZE + 2)
    /\ logged_metrics = {"App:Launch"}

\* the metrics in the queues, of whatever instance
InQueues == UNION {{queue[i][j] : j \in DOMAIN queue[i]} : i \in DOMAIN queue}

\* no element occurs twice in the sequence
NoRepeats(seq) == \A i, j \in DOMAIN seq : i # j => seq[i] # seq[j]

\* C15: however _dispatch ends, with the request answered or with any error,
\* the worker goes to the wait of its cycle with the queues as they were and
\* at most one request made; a metric that was drained is in no queue and
\* is in no second batch; and a worker leaves the loop only at the loop test
\* with its halt event set.
C15_DroppedNotRetried ==
    /\ [][\A w \in WorkerIds :
            (thread[w].pc = "dispatch" /\ thread'[w].pc # "dispatch") =>
                /\ thread'[w].pc = "wait"
                /\ thread'[w].metrics = thread[w].metrics
                /\ Len(thread'[w].request) <= 1
                /\ queue' = queue]_vars
    /\ [][\A w \in WorkerIds :
            (Running(w) /\ thread[w].pc # "run" /\ thread'[w].pc # thread[w].pc
                /\ ~(thread[w].pc = "loop" /\ thread[w]._halt_event))
                => (thread'[w].pc \notin {"halted", "unsupported", "run", "unborn"})]_vars
    /\ [](/\ NoRepeats(drained)
          /\ \A i \in DOMAIN drained : drained[i] \notin InQueues)

\* a worker waits after its second cycle: its first batch of ten was
\* dropped, and the request for the two metrics left then failed
C15_Witness ==
    \E w \in WorkerIds :
        /\ thread[w].pc = "wait"
        /\ thread[w].outcome = "URLError"
        /\ Len(thread[w].metrics) = 2
        /\ Len(drained) = DISPATCH_BATCH_SIZE + 2
        /\ Pending = <<>>
        /\ Created = 1

\* the thread that logged metric m
Producer(m) == calls[m.oid].thread

\* the metrics of one caller thread come in seq in the order of its calls
InCallOrder(seq) ==
    \A j, k \in DOMAIN seq :
        (j < k /\ Producer(seq[j]) = Producer(seq[k])) => seq[j].oid < seq[k].oid

\* the metrics returned to thread t, in return order
DrainedBy(t) ==
    LET Sel(i) == drained_by[i] = t
        RECURSIVE F(_)
        F(i) == IF i = 0 THEN <<>>
                ELSE IF Sel(i) THEN Append(F(i - 1), drained[i]) ELSE F(i - 1)
    IN F(Len(drained))

Healthy(w) ==
    /\ thread[w].pc \notin {"unborn", "run", "unsupported", "halted"}
    /\ ~thread[w]._halt_event

\* the i-th metric appended has been returned by a get_metrics call
Delivered(i) ==
    /\ i <= Len(appended)
    /\ \E j \in DOMAIN drained : drained[j] = appended[i]

\* C17: if from some time on a worker is past the probe and never halted,
\* then every metric appended to a queue, the metrics beyond one batch
\* included, is drained in the end.
C17_AllEventuallyDrained ==
    (\E w \in WorkerIds : <>[]Healthy(w))
        => \A i \in 1..MaxBacklog : (i <= Len(appended)) ~> Delivered(i)

\* C18: a request a worker makes holds the data of at least one and at most
\* DISPATCH_BATCH_SIZE metrics, and so does a call of the hook; a worker
\* whose get_metrics call returned nothing goes to the wait of its cycle
\* without a request and without a call of the hook.
C18_RequestSizes ==
    /\ [](\A w \in WorkerIds :
            /\ \A i \in DOMAIN thread[w].request :
                  /\ 1 <= Len(thread[w].request[i].metrics)
                  /\ Len(thread[w].request[i].metrics) <= DISPATCH_BATCH_SIZE
            /\ \A i \in DOMAIN thread[w].hook :
                  /\ 1 <= Len(thread[w].hook[i])
                  /\ Len(thread[w].hook[i]) <= DISPATCH_BATCH_SIZE
            /\ (thread[w].pc = "wait" /\ thread[w].metrics = <<>>) =>
                  /\ thread[w].outcome = "none"
                  /\ thread[w].request = <<>>
                  /\ thread[w].hook = <<>>)
    /\ [][\A w \in WorkerIds :
            (Got(w) /\ thread[w].metrics = <<>> /\ thread'[w].pc # thread[w].pc)
                => thread'[w].pc = "wait"]_vars

\* a worker has drained twelve metrics, in batches of at most ten, and waits
\* in a later cycle, in which it found the queue empty
C18_Witness ==
    \E w \in WorkerIds :
        /\ thread[w].pc = "wait"
        /\ thread[w].metrics = <<>>
        /\ thread[w].request = <<>>
        /\ Len(drained) = DISPATCH_BATCH_SIZE + 2
        /\ \A i \in DOMAIN drained_by : drained_by[i] = w

\* C19: no step, of a caller, of a worker or of the control thread, takes
\* an identifier out of the seen set; the identifier of every metric
\* appended is in it, drained or not; and a log_once call for an identifier
\* of a metric that was drained returns at its test and appends nothing.
C19_SeenOnlyGrows ==
    /\ [][logged_metrics \subseteq logged_metrics']_vars
    /\ [](\A i \in DOMAIN appended : repr(appended[i]) \in logged_metrics)
    /\ [][\A t \in Producers :
            (/\ thread[t].pc = "log_check"
             /\ thread[t].log_once
             /\ \E j \in DOMAIN drained : repr(drained[j]) = repr(thread[t].metric)
             /\ thread'[t].pc # "log_check")
                => /\ thread'[t].pc = "idle"
                   /\ thread'[t].ret = "skipped"
                   /\ appended' = appended
                   /\ queue' = queue]_vars

\* a worker has drained and sent the one metric logged, and a log_once call
\* for its identifier has then returned without appending
C19_Witness ==
    /\ Len(calls) = 2
    /\ calls[2].log_once
    /\ thread[1].pc = "idle"
    /\ thread[1].ret = "skipped"
    /\ Len(appended) = 1
    /\ drained = appended
    /\ drained_by[1] \in WorkerIds
    /\ Pending = <<>>
    /\ repr(calls[2].metric) \in logged_metrics
    /\ ctl = "stopped"

\* the worker threads the last call of start that went through has created
LastStarted ==
    {NumProducers + Created - dispatcher._num_workers + i : i \in 1..dispatcher._num_workers}

\* C20: when _dispatching is false the worker list is empty and every worker
\* thread ever created has its halt event set; when it is true the list
\* holds _num_workers different threads, those the last start that went
\* through has created, and none of them has its halt event set.
C20_ControlInvariant ==
    /\ ~dispatcher._dispatching =>
          /\ dispatcher._workers = <<>>
          /\ \A w \in WorkerIds : thread[w].pc # "unborn" => thread[w]._halt_event
    /\ dispatcher._dispatching =>
          /\ Len(dispatcher._workers) = dispatcher._num_workers
          /\ Cardinality(Listed) = dispatcher._num_workers
          /\ Listed = LastStarted
          /\ \A w \in Listed : ~thread[w]._halt_event
          /\ \A w \in WorkerIds \ Listed :
                thread[w].pc # "unborn" => thread[w]._halt_event

\* start, stop and start again: the list holds the second worker alone,
\* while the first, told to halt, is still inside its cycle
C20_Witness ==
    /\ dispatcher._dispatching
    /\ ctl = "started"
    /\ dispatcher._workers = <<NumProducers + 2>>
    /\ ~thread[NumProducers + 2]._halt_event
    /\ thread[NumProducers + 1]._halt_event
    /\ thread[NumProducers + 1].pc = "dispatch"
=============================================================================
